---- MODULE Spec2Model ----
(***************************************************************************)
(* Model of farmer-chat/intent_classification/symptom_classifier.py:       *)
(* ServviaSymptomAnalyzer (analyze_symptoms, _build_prompt,                *)
(* analyze_with_streaming) and ServviaAPI.analyze.                         *)
(*                                                                         *)
(* Text is a sequence of tokens.  A symptom text is a sequence of          *)
(* characters; a response payload is a sequence of JSON tokens, a member   *)
(* token standing for one "key": value pair of an object together with the *)
(* comma that separates it from the pair before it.  A JSON value is a     *)
(* sequence of strings whose head names its type, so that all values are   *)
(* comparable: <<"str", s>>, <<"list", e1, ...>>, <<"null">>, <<"int", n>>.*)
(***************************************************************************)
EXTENDS Integers, Sequences, FiniteSets, TLC

\* ------------------------------------------------------------------ bounds
\* longest run of non-blank characters in a symptom text
MaxBody == 5
\* most non-empty text deltas a provider stream is cut into
MaxChunks == 3
\* most empty or content-less deltas a provider stream carries
MaxEmpty == 1

\* ------------------------------------------------------- program constants
\* len(symptoms.strip()) < 5
MinLength == 5

\* ------------------------------------------------------------ small helpers
RECURSIVE Repeat(_, _)
Repeat(c, n) == IF n = 0 THEN <<>> ELSE <<c>> \o Repeat(c, n - 1)

RECURSIVE Flatten(_)
Flatten(ss) == IF ss = <<>> THEN <<>> ELSE Head(ss) \o Flatten(Tail(ss))

Count(s, x) == Cardinality({i \in 1..Len(s) : s[i] = x})

Last(s) == s[Len(s)]

\* an optional value is <<>> (Python's None / nothing) or <<v>>
None == <<>>
Some(v) == <<v>>

\* --------------------------------------------------------- symptom inputs
\* A caller-supplied value for the symptoms parameter: a str (text is its
\* characters), None, or an int n.
StrInput(t) == [type |-> "str", text |-> t, n |-> 0]
NoneInput == [type |-> "NoneType", text |-> <<>>, n |-> 0]
IntInput(k) == [type |-> "int", text |-> <<>>, n |-> k]

\* bool(x) as the Python data model defines it for these types
Truthy(x) ==
    CASE x.type = "str" -> x.text # <<>>
      [] x.type = "int" -> x.n # 0
      [] OTHER -> FALSE

IsInstanceStr(x) == x.type = "str"

IsSpace(c) == c = " "

\* str.strip(): drop leading and trailing whitespace
RECURSIVE LStrip(_)
LStrip(t) == IF t # <<>> /\ IsSpace(Head(t)) THEN LStrip(Tail(t)) ELSE t

RECURSIVE RStrip(_)
RStrip(t) ==
    IF t # <<>> /\ IsSpace(Last(t)) THEN RStrip(SubSeq(t, 1, Len(t) - 1)) ELSE t

Strip(t) == RStrip(LStrip(t))

\* texts around the minimum length: nothing, runs of MinLength - 1 to MaxBody
\* characters, and a text with a blank inside
Bodies ==
    {<<>>, <<"a", "a", " ", "a", "a">>} \cup {Repeat("a", j) : j \in (MinLength - 1)..MaxBody}

SymptomInputs ==
    {StrInput(Repeat(" ", l) \o b \o Repeat(" ", r)) : l \in 0..1, r \in 0..1, b \in Bodies}
        \cup {NoneInput, IntInput(0), IntInput(7)}

\* ------------------------------------------------------------ Python str()
Digits == <<"0", "1", "2", "3", "4", "5", "6", "7", "8", "9">>

RECURSIVE IntChars(_)
IntChars(k) ==
    IF k < 10 THEN <<Digits[k + 1]>> ELSE IntChars(k \div 10) \o <<Digits[(k % 10) + 1]>>

\* str(value), what an f-string interpolates
PyStr(x) ==
    CASE x.type = "str" -> x.text
      [] x.type = "int" -> IntChars(x.n)
      [] OTHER -> <<"N", "o", "n", "e">>

LowerCase ==
    <<"a", "b", "c", "d", "e", "f", "g", "h", "i", "j", "k", "l", "m",
      "n", "o", "p", "q", "r", "s", "t", "u", "v", "w", "x", "y", "z">>

UpperCase ==
    <<"A", "B", "C", "D", "E", "F", "G", "H", "I", "J", "K", "L", "M",
      "N", "O", "P", "Q", "R", "S", "T", "U", "V", "W", "X", "Y", "Z">>

IsLower(c) == \E i \in 1..26 : LowerCase[i] = c
IsUpper(c) == \E i \in 1..26 : UpperCase[i] = c
IsCased(c) == IsLower(c) \/ IsUpper(c)
ToUpper(c) == IF IsLower(c) THEN UpperCase[CHOOSE i \in 1..26 : LowerCase[i] = c] ELSE c
ToLower(c) == IF IsUpper(c) THEN LowerCase[CHOOSE i \in 1..26 : UpperCase[i] = c] ELSE c

\* str.replace('_', ' ')
ReplaceUnderscore(t) == [i \in 1..Len(t) |-> IF t[i] = "_" THEN " " ELSE t[i]]

\* Title as str.capitalize(): the first character upper-cased, the rest lower
TitleCapitalize(t) == [i \in 1..Len(t) |-> IF i = 1 THEN ToUpper(t[i]) ELSE ToLower(t[i])]

\* str.title(): a cased character is upper-cased when it follows an uncased
\* character (or starts the string) and lower-cased otherwise
Title(t) ==
    [i \in 1..Len(t) |->
        IF i = 1 \/ ~IsCased(t[i - 1]) THEN ToUpper(t[i]) ELSE ToLower(t[i])]

\* ------------------------------------------------------ prompt construction
\* additional_info is None or a dict; a dict is the sequence of its items in
\* insertion order, each [key, value]; None is the empty sequence, which
\* `if additional_info:` treats as it treats the empty dict.
NoInfo == <<>>
Item(k, v) == [key |-> k, value |-> v]

PromptHeader == "Please analyze these symptoms:\n\n"
InfoHeader == "\n\nAdditional Information:"
PromptFooter == "\n\nProvide your analysis in the specified JSON format."

\* one "\n- {key.replace('_', ' ').title()}: {value}" line
InfoLine(item) ==
    <<"\n", "-", " ">> \o Title(ReplaceUnderscore(item.key)) \o <<":", " ">> \o PyStr(item.value)

\* _build_prompt: the prompt is the sequence of its parts
BuildPrompt(symptoms, additional_info) ==
    <<<<PromptHeader>>, PyStr(symptoms)>>
        \o (IF additional_info # <<>>
            THEN <<<<InfoHeader>>>> \o [i \in 1..Len(additional_info) |-> InfoLine(additional_info[i])]
            ELSE <<>>)
        \o <<<<PromptFooter>>>>

Chars_age == <<"a", "g", "e">>
Chars_gender == <<"g", "e", "n", "d", "e", "r">>
Chars_duration == <<"d", "u", "r", "a", "t", "i", "o", "n">>
Chars_severity_level ==
    <<"s", "e", "v", "e", "r", "i", "t", "y", "_", "l", "e", "v", "e", "l">>
Chars_medical_history ==
    <<"m", "e", "d", "i", "c", "a", "l", "_", "h", "i", "s", "t", "o", "r", "y">>

Female == StrInput(<<"f", "e", "m", "a", "l", "e">>)
TwoDays == StrInput(<<"2", " ", "d", "a", "y", "s">>)

\* the additional_info of main()'s example call
ExampleInfo ==
    <<Item(Chars_age, IntInput(30)), Item(Chars_gender, Female), Item(Chars_duration, TwoDays)>>

InfoInputs == {NoInfo, ExampleInfo}

\* --------------------------------------------------------------- JSON text
Str(s) == <<"str", s>>
List(ss) == <<"list">> \o ss
Null == <<"null">>

LBrace == <<"{">>
RBrace == <<"}">>
Prose == <<"prose">>
Atom(v) == <<"atom">> \o v
Member(k, v) == <<"member", k>> \o v

IsMemberTok(tok) == tok[1] = "member"
IsAtomTok(tok) == tok[1] = "atom"
MemberKey(tok) == tok[2]
MemberValue(tok) == SubSeq(tok, 3, Len(tok))
AtomValue(tok) == SubSeq(tok, 2, Len(tok))

IsMemberList(toks) == \A i \in 1..Len(toks) : IsMemberTok(toks[i])

IsObjectText(toks) ==
    /\ Len(toks) >= 2
    /\ Head(toks) = LBrace
    /\ Last(toks) = RBrace
    /\ IsMemberList(SubSeq(toks, 2, Len(toks) - 1))

IsAtomText(toks) == Len(toks) = 1 /\ IsAtomTok(toks[1])

\* the dict json.loads builds from an object text: a repeated key keeps its
\* last value
ObjectOf(toks) ==
    LET ms == {i \in 1..Len(toks) : IsMemberTok(toks[i])}
        keys == {MemberKey(toks[i]) : i \in ms}
        last(k) == CHOOSE i \in ms :
                      /\ MemberKey(toks[i]) = k
                      /\ \A j \in ms : MemberKey(toks[j]) = k => j <= i
    IN [k \in keys |-> MemberValue(toks[last(k)])]

\* json.loads: raises JSONDecodeError, or returns a value of Python type
\* dict (an object), or list / str / NoneType / int (any other JSON value)
JsonLoads(text) ==
    IF IsObjectText(text)
    THEN [raises |-> FALSE, type |-> "dict", items |-> ObjectOf(text)]
    ELSE IF IsAtomText(text)
    THEN [raises |-> FALSE, type |-> AtomValue(text[1])[1], items |-> <<>>]
    ELSE [raises |-> TRUE, type |-> "", items |-> <<>>]

\* dict.get(key, default)
DictGet(d, k, default) == IF k \in DOMAIN d THEN d[k] ELSE default

Fields ==
    {"condition", "severity", "confidence", "analysis", "remedies",
     "when_to_see_doctor", "precautions", "disclaimer"}

DefaultDisclaimer == "This is not a medical diagnosis. Consult a healthcare professional."

\* AnalyzeSymptomsResult with the default of severity given to confidence too
AnalyzeSymptomsResultSlip(result_data) ==
    [condition |-> DictGet(result_data, "condition", Str("Unknown")),
     severity |-> DictGet(result_data, "severity", Str("moderate")),
     confidence |-> DictGet(result_data, "confidence", Str("moderate")),
     analysis |-> DictGet(result_data, "analysis", Str("")),
     remedies |-> DictGet(result_data, "remedies", List(<<>>)),
     when_to_see_doctor |-> DictGet(result_data, "when_to_see_doctor", List(<<>>)),
     precautions |-> DictGet(result_data, "precautions", List(<<>>)),
     disclaimer |-> DictGet(result_data, "disclaimer", Str(DefaultDisclaimer))]

\* AnalysisResult(...) as analyze_symptoms constructs it from result_data
AnalyzeSymptomsResult(result_data) ==
    [condition |-> DictGet(result_data, "condition", Str("Unknown")),
     severity |-> DictGet(result_data, "severity", Str("moderate")),
     confidence |-> DictGet(result_data, "confidence", Str("medium")),
     analysis |-> DictGet(result_data, "analysis", Str("")),
     remedies |-> DictGet(result_data, "remedies", List(<<>>)),
     when_to_see_doctor |-> DictGet(result_data, "when_to_see_doctor", List(<<>>)),
     precautions |-> DictGet(result_data, "precautions", List(<<>>)),
     disclaimer |-> DictGet(result_data, "disclaimer", Str(DefaultDisclaimer))]

\* StreamingResult reading precautions from the remedies key
StreamingResultSlip(result_data) ==
    [condition |-> DictGet(result_data, "condition", Str("Unknown")),
     severity |-> DictGet(result_data, "severity", Str("moderate")),
     confidence |-> DictGet(result_data, "confidence", Str("medium")),
     analysis |-> DictGet(result_data, "analysis", Str("")),
     remedies |-> DictGet(result_data, "remedies", List(<<>>)),
     when_to_see_doctor |-> DictGet(result_data, "when_to_see_doctor", List(<<>>)),
     precautions |-> DictGet(result_data, "remedies", List(<<>>)),
     disclaimer |-> DictGet(result_data, "disclaimer", Str(DefaultDisclaimer))]

\* AnalysisResult(...) as analyze_with_streaming constructs it
StreamingResult(result_data) ==
    [condition |-> DictGet(result_data, "condition", Str("Unknown")),
     severity |-> DictGet(result_data, "severity", Str("moderate")),
     confidence |-> DictGet(result_data, "confidence", Str("medium")),
     analysis |-> DictGet(result_data, "analysis", Str("")),
     remedies |-> DictGet(result_data, "remedies", List(<<>>)),
     when_to_see_doctor |-> DictGet(result_data, "when_to_see_doctor", List(<<>>)),
     precautions |-> DictGet(result_data, "precautions", List(<<>>)),
     disclaimer |-> DictGet(result_data, "disclaimer", Str(DefaultDisclaimer))]

\* ------------------------------------------------------ provider responses
Obj(ms) == <<LBrace>> \o ms \o <<RBrace>>

\* every key of the schema present
FullMembers ==
    <<Member("condition", Str("Migraine")),
      Member("severity", Str("severe")),
      Member("confidence", Str("high")),
      Member("analysis", Str("may indicate migraine")),
      Member("remedies", List(<<"rest", "hydrate">>)),
      Member("when_to_see_doctor", List(<<"vision loss">>)),
      Member("precautions", List(<<"avoid bright light">>)),
      Member("disclaimer", Str("Not medical advice."))>>

\* severity, confidence and disclaimer absent
PartialMembers ==
    <<Member("condition", Str("Cold")),
      Member("analysis", Str("")),
      Member("remedies", List(<<>>)),
      Member("when_to_see_doctor", List(<<"fever over 3 days">>)),
      Member("precautions", List(<<"rest">>))>>

\* values outside the vocabularies, and a key outside the schema
OffVocabularyMembers ==
    <<Member("severity", Str("critical")),
      Member("confidence", Str("certain")),
      Member("urgency", Str("now"))>>

\* a key present with a null value, a key given twice
OddMembers ==
    <<Member("condition", Null),
      Member("severity", Str("mild")),
      Member("severity", Str("emergency"))>>

ObjectTexts ==
    {Obj(FullMembers), Obj(PartialMembers), Obj(OffVocabularyMembers), Obj(OddMembers), Obj(<<>>)}

\* JSON values that are no object
AtomTexts == {<<Atom(Null)>>, <<Atom(List(<<>>))>>, <<Atom(Str("rest"))>>, <<Atom(<<"int", "3">>)>>}

Prefixes(t) == {SubSeq(t, 1, n) : n \in 0..Len(t)}

\* what the provider may send as the response text: JSON objects, other JSON
\* values, a truncated object (every prefix, the empty text included), prose,
\* an object inside prose, an object with prose inside
Payloads ==
    ObjectTexts \cup AtomTexts \cup Prefixes(Obj(OffVocabularyMembers))
        \cup {<<Prose>>, <<Prose, LBrace, RBrace>>,
              <<LBrace, Member("severity", Str("mild")), Prose, RBrace>>}

\* ------------------------------------------------------------- exceptions
\* an exception raised to the caller: its class, its message and, where the
\* message interpolates str(e), the class of the e it wraps
ValueError(m) == [type |-> "ValueError", msg |-> m, cause |-> ""]
Exception(m, c) == [type |-> "Exception", msg |-> m, cause |-> c]

MsgNonEmpty == "Symptoms must be a non-empty string"
MsgMoreDetail == "Please provide more detailed symptom description"
MsgInvalidFormat == "AI returned invalid response format"
MsgFailed == "Failed to analyze symptoms: "

\* --------------------------------------------------------- Analysis Engine
\* ValidateSymptoms measuring the text as given, without strip()
ValidateSymptomsUnstripped(symptoms) ==
    IF ~Truthy(symptoms) \/ ~IsInstanceStr(symptoms) THEN Some(ValueError(MsgNonEmpty))
    ELSE IF Len(symptoms.text) < MinLength THEN Some(ValueError(MsgMoreDetail))
    ELSE None

\* the input validation of analyze_symptoms: the exception it raises, or None
ValidateSymptoms(symptoms) ==
    IF ~Truthy(symptoms) \/ ~IsInstanceStr(symptoms) THEN Some(ValueError(MsgNonEmpty))
    ELSE IF Len(Strip(symptoms.text)) < MinLength THEN Some(ValueError(MsgMoreDetail))
    ELSE None

\* the arguments of client.chat.completions.create
Request(user_message, streaming) ==
    [system |-> "system_prompt", user |-> user_message, temperature |-> "0.7",
     max_tokens |-> 2000, stream |-> streaming, response_format |-> "json_object"]

\* CreateCompletion issuing the request a second time
CreateCompletionRetried(issued, request) == issued \o <<request, request>>

\* client.chat.completions.create(...) is called: one more request is issued
CreateCompletion(issued, request) == Append(issued, request)

\* A provider's answer to a blocking request: the call fails, or returns the
\* response text.
ProviderAnswers == [fails : BOOLEAN, payload : Payloads]

\* the try block of analyze_symptoms once the response text is read, and the
\* two except clauses it falls into
ParseResponse(response_text) ==
    LET loaded == JsonLoads(response_text)
    IN IF loaded.raises
       THEN [exc |-> Some(Exception(MsgInvalidFormat, "")), result |-> None]
       ELSE IF loaded.type # "dict"
       THEN [exc |-> Some(Exception(MsgFailed, "AttributeError")), result |-> None]
       ELSE [exc |-> None, result |-> Some(AnalyzeSymptomsResult(loaded.items))]

\* analyze_symptoms(symptoms, additional_info) against a provider answer:
\* what it raises or returns, and the requests it issued
AnalyzeSymptoms(symptoms, additional_info, provider) ==
    LET invalid == ValidateSymptoms(symptoms)
        user_message == BuildPrompt(symptoms, additional_info)
        issued == CreateCompletion(<<>>, Request(user_message, FALSE))
    IN IF invalid # None
       THEN [exc |-> invalid, result |-> None, requests |-> <<>>, text |-> None]
       ELSE IF provider.fails
       THEN [exc |-> Some(Exception(MsgFailed, "APIError")), result |-> None,
             requests |-> issued, text |-> None]
       ELSE LET parsed == ParseResponse(provider.payload)
            IN [exc |-> parsed.exc, result |-> parsed.result,
                requests |-> issued, text |-> Some(provider.payload)]

\* ----------------------------------------------------------- Result Facade
\* the keyword arguments of ServviaAPI.analyze besides symptoms
FacadeParams ==
    {[age |-> NoneInput, gender |-> NoneInput, duration |-> NoneInput,
      severity_level |-> NoneInput, medical_history |-> NoneInput],
     [age |-> IntInput(30), gender |-> Female, duration |-> TwoDays,
      severity_level |-> NoneInput, medical_history |-> NoneInput],
     [age |-> IntInput(0), gender |-> StrInput(<<>>), duration |-> NoneInput,
      severity_level |-> StrInput(<<"h", "i", "g", "h">>),
      medical_history |-> StrInput(<<"a", "s", "t", "h", "m", "a">>)]}

\* the additional_info dict ServviaAPI.analyze builds, a key per truthy argument
BuildAdditionalInfo(p) ==
    (IF Truthy(p.age) THEN <<Item(Chars_age, p.age)>> ELSE <<>>)
        \o (IF Truthy(p.gender) THEN <<Item(Chars_gender, p.gender)>> ELSE <<>>)
        \o (IF Truthy(p.duration) THEN <<Item(Chars_duration, p.duration)>> ELSE <<>>)
        \o (IF Truthy(p.severity_level)
            THEN <<Item(Chars_severity_level, p.severity_level)>> ELSE <<>>)
        \o (IF Truthy(p.medical_history)
            THEN <<Item(Chars_medical_history, p.medical_history)>> ELSE <<>>)

\* AnalysisResult.to_dict(): asdict, a dict with a key per field
ToDict(r) == [f \in Fields |-> r[f]]

\* FacadeResponse with `except Exception` placed before `except ValueError`
FacadeResponseGenericFirst(outcome) ==
    IF outcome.exc = None
    THEN [status |-> "success", data |-> Some(ToDict(outcome.result[1])),
          error |-> None, code |-> None]
    ELSE [status |-> "error", data |-> None,
          error |-> Some("Failed to analyze symptoms. Please try again."),
          code |-> Some("ANALYSIS_FAILED")]

\* the return statements of ServviaAPI.analyze: the dict for what the engine
\* raised or returned
FacadeResponse(outcome) ==
    IF outcome.exc = None
    THEN [status |-> "success", data |-> Some(ToDict(outcome.result[1])),
          error |-> None, code |-> None]
    ELSE IF outcome.exc[1].type = "ValueError"
    THEN [status |-> "error", data |-> None,
          error |-> Some(outcome.exc[1].msg), code |-> Some("INVALID_INPUT")]
    ELSE [status |-> "error", data |-> None,
          error |-> Some("Failed to analyze symptoms. Please try again."),
          code |-> Some("ANALYSIS_FAILED")]

\* ---------------------------------------------------------- streaming mode
\* a delta's content is None or a text; `if chunk.choices[0].delta.content`
\* passes a non-empty text only
HasContent(delta) == delta # None /\ delta[1] # <<>>

ContentLess == {None, Some(<<>>)}

\* the text fragments among the deltas read from a stream
TextFragments(ds) == SelectSeq(ds, HasContent)

\* collected_content += content
Accumulate(collected_content, content) == collected_content \o content

\* YieldChunk yielding collected_content, the text so far, for content
YieldCollected(chunks, content) == Append(chunks, Flatten(chunks) \o content)

\* yield content: the consumer has received one more chunk
YieldChunk(chunks, content) == Append(chunks, content)

\* the statements after the for loop of analyze_with_streaming, and the
\* except clause they fall into
FinalizeStreaming(collected_content) ==
    LET loaded == JsonLoads(collected_content)
    IN IF loaded.raises
       THEN [exc |-> Some(Exception(MsgFailed, "JSONDecodeError")), result |-> None]
       ELSE IF loaded.type # "dict"
       THEN [exc |-> Some(Exception(MsgFailed, "AttributeError")), result |-> None]
       ELSE [exc |-> None, result |-> Some(StreamingResult(loaded.items))]

\* ------------------------------------------------------------------- state
VARIABLES
    op,         \* the operation of the current invocation
    args,       \* its arguments: [symptoms, additional_info]
    exc,        \* the exception it raised to its caller, if any
    result,     \* the AnalysisResult it returned, if any
    response,   \* the dict ServviaAPI.analyze returned, if any
    requests,   \* the completion requests it issued
    log,        \* what its caller observed, in order: "yield", "raise", "return"
    gen,        \* the generator: "none", "created", "suspended", "finished", "closed"
    payload,    \* the response text the provider answers the request with
    remaining,  \* the part of a streamed response not yet delivered
    received,   \* the deltas with content the generator has read from the stream
    skips,      \* how many content-less deltas it has read
    collected,  \* collected_content
    yielded,    \* the chunks the consumer has received
    connection  \* the provider connection: "none", "open", "released"

vars ==
    <<op, args, exc, result, response, requests, log, gen, payload, remaining,
      received, skips, collected, yielded, connection>>

Init ==
    /\ op = "none"
    /\ args = [symptoms |-> NoneInput, additional_info |-> NoInfo]
    /\ exc = None
    /\ result = None
    /\ response = None
    /\ requests = <<>>
    /\ log = <<>>
    /\ gen = "none"
    /\ payload = None
    /\ remaining = <<>>
    /\ received = <<>>
    /\ skips = 0
    /\ collected = <<>>
    /\ yielded = <<>>
    /\ connection = "none"

\* Invocations share no state: the analyzer's fields (client, model,
\* system_prompt) are read-only after __init__ and every other value is a
\* local of the call.  A behaviour therefore follows one invocation from a
\* fresh analyzer, and the call that follows a cancelled one.
NoCallYet == op = "none"

\* a blocking call has read its whole response when it returns
BlockingDone(out) ==
    /\ exc' = out.exc
    /\ result' = out.result
    /\ requests' = out.requests
    /\ payload' = out.text
    /\ connection' = IF out.requests = <<>> THEN "none" ELSE "released"
    /\ gen' = "none"
    /\ remaining' = <<>>
    /\ received' = <<>>
    /\ skips' = 0
    /\ collected' = <<>>
    /\ yielded' = <<>>

\* a caller invokes analyze_symptoms
CallAnalyzeSymptoms ==
    /\ NoCallYet
    /\ \E symptoms \in SymptomInputs, additional_info \in InfoInputs,
          provider \in ProviderAnswers :
        LET out == AnalyzeSymptoms(symptoms, additional_info, provider)
        IN /\ op' = "analyze_symptoms"
           /\ args' = [symptoms |-> symptoms, additional_info |-> additional_info]
           /\ response' = None
           /\ log' = IF out.exc # None THEN <<"raise">> ELSE <<"return">>
           /\ BlockingDone(out)

\* a transport adapter invokes ServviaAPI.analyze
CallFacade ==
    /\ NoCallYet
    /\ \E symptoms \in SymptomInputs, p \in FacadeParams, provider \in ProviderAnswers :
        LET additional_info == BuildAdditionalInfo(p)
            out == AnalyzeSymptoms(symptoms, additional_info, provider)
        IN /\ op' = "analyze"
           /\ args' = [symptoms |-> symptoms, additional_info |-> additional_info]
           /\ response' = Some(FacadeResponse(out))
           /\ log' = <<"return">>
           /\ BlockingDone([out EXCEPT !.exc = None, !.result = None])

\* analyze_with_streaming(symptoms, additional_info) is called: a generator
\* is created and none of the function's body has run
NewGenerator(symptoms, additional_info) ==
    /\ op' = "analyze_with_streaming"
    /\ args' = [symptoms |-> symptoms, additional_info |-> additional_info]
    /\ gen' = "created"
    /\ exc' = None
    /\ result' = None
    /\ response' = None
    /\ requests' = <<>>
    /\ log' = <<>>
    /\ payload' = None
    /\ remaining' = <<>>
    /\ received' = <<>>
    /\ skips' = 0
    /\ collected' = <<>>
    /\ yielded' = <<>>
    /\ connection' = "none"

\* a caller invokes analyze_with_streaming
CallStreaming ==
    /\ NoCallYet
    /\ \E symptoms \in SymptomInputs, additional_info \in InfoInputs :
        NewGenerator(symptoms, additional_info)

\* the caller of a cancelled streaming call calls again with the same input
CallStreamingAgain ==
    /\ gen = "closed"
    /\ NewGenerator(args.symptoms, args.additional_info)

\* The generator runs the for loop from the stream's next delta rem until it
\* yields or ends: it skips the content-less deltas `skipped`, then the
\* stream delivers a delta of k tokens, ends, or fails.
RunLoop(rem, skipped, what, k) ==
    /\ skips' = skips + Len(skipped)
    /\ \/ /\ what = "delta"
          /\ k \in 1..Len(rem)
          /\ Len(yielded) < MaxChunks
          /\ Len(yielded) = MaxChunks - 1 => k = Len(rem)
          /\ LET content == SubSeq(rem, 1, k)
             IN /\ received' = received \o TextFragments(skipped \o <<Some(content)>>)
                /\ collected' = Accumulate(collected, content)
                /\ yielded' = YieldChunk(yielded, content)
                /\ remaining' = SubSeq(rem, k + 1, Len(rem))
          /\ log' = Append(log, "yield")
          /\ gen' = "suspended"
          /\ connection' = "open"
          /\ exc' = None
          /\ result' = None
       \/ /\ what = "end"
          /\ rem = <<>>
          /\ LET final == FinalizeStreaming(collected)
             IN /\ exc' = final.exc
                /\ result' = final.result
                /\ log' = Append(log, IF final.exc # None THEN "raise" ELSE "return")
          /\ received' = received \o TextFragments(skipped)
          /\ gen' = "finished"
          /\ connection' = "released"
          /\ UNCHANGED <<collected, yielded>>
          /\ remaining' = rem
       \/ /\ what = "fail"
          /\ exc' = Some(Exception(MsgFailed, "APIError"))
          /\ result' = None
          /\ log' = Append(log, "raise")
          /\ received' = received \o TextFragments(skipped)
          /\ gen' = "finished"
          /\ connection' = "released"
          /\ UNCHANGED <<collected, yielded>>
          /\ remaining' = rem

\* the content-less deltas a stream may still carry
Skippable == UNION {[1..n -> ContentLess] : n \in 0..(MaxEmpty - skips)}

LoopEvents == {"delta", "end", "fail"}

\* the consumer's first next(): the body runs from its first line up to the
\* first yield, or to the end
StartStreaming ==
    /\ gen = "created"
    /\ LET user_message == BuildPrompt(args.symptoms, args.additional_info)
           issued == CreateCompletion(requests, Request(user_message, TRUE))
       IN /\ requests' = issued
          /\ \/ /\ exc' = Some(Exception(MsgFailed, "APIError"))
                /\ log' = Append(log, "raise")
                /\ gen' = "finished"
                /\ connection' = "released"
                /\ UNCHANGED <<result, payload, remaining, received, skips, collected, yielded>>
             \/ \E text \in Payloads, skipped \in Skippable, what \in LoopEvents :
                    \E k \in 0..Len(text) :
                        /\ payload' = Some(text)
                        /\ RunLoop(text, skipped, what, k)
    /\ UNCHANGED <<op, args, response>>

\* a later next(): the body resumes after the yield
ResumeStreaming ==
    /\ gen = "suspended"
    /\ \E skipped \in Skippable, what \in LoopEvents, k \in 0..Len(remaining) :
        RunLoop(remaining, skipped, what, k)
    /\ UNCHANGED <<op, args, response, requests, payload>>

\* The consumer abandons the generator (close(), or the last reference is
\* dropped): GeneratorExit is raised at the yield, which `except Exception`
\* does not catch, and no statement of the function closes the stream; whether
\* the connection is released is left to the client library's finalizers.
CancelStreaming ==
    /\ gen \in {"created", "suspended"}
    /\ gen' = "closed"
    /\ connection' \in (IF connection = "open" THEN {"open", "released"} ELSE {connection})
    /\ UNCHANGED <<op, args, exc, result, response, requests, log, payload, remaining,
                   received, skips, collected, yielded>>

Next ==
    \/ CallAnalyzeSymptoms
    \/ CallFacade
    \/ CallStreaming
    \/ CallStreamingAgain
    \/ StartStreaming
    \/ ResumeStreaming
    \/ CancelStreaming

Spec == Init /\ [][Next]_vars

\* ================================================================== claims
\* the length of a text without its leading and trailing blanks
TrimmedLen(t) ==
    LET inked == {i \in 1..Len(t) : t[i] # " "}
    IN IF inked = {} THEN 0
       ELSE (CHOOSE i \in inked : \A j \in inked : j <= i)
                - (CHOOSE i \in inked : \A j \in inked : i <= j) + 1

\* a symptom input that is not a text, or is empty, blank or shorter than 5
\* characters once trimmed
ShortOrNonText(x) == x.type # "str" \/ TrimmedLen(x.text) < 5

IsValueError(e) == e # None /\ e[1].type = "ValueError"

\* the member lists of the JSON objects a provider may answer with
MemberLists == {FullMembers, PartialMembers, OffVocabularyMembers, OddMembers, <<>>}

IsJsonObject(text) == \E ms \in MemberLists : text = Obj(ms)

HasKey(ms, f) == \E i \in 1..Len(ms) : ms[i][2] = f

\* the value a JSON object gives a key: that of its last member with the key
ValueOf(ms, f) ==
    LET i == CHOOSE n \in 1..Len(ms) :
                 ms[n][2] = f /\ \A m \in (n + 1)..Len(ms) : ms[m][2] # f
    IN SubSeq(ms[i], 3, Len(ms[i]))

\* the defaults of the eight fields
FieldDefault(f) ==
    CASE f = "condition" -> <<"str", "Unknown">>
      [] f = "severity" -> <<"str", "moderate">>
      [] f = "confidence" -> <<"str", "medium">>
      [] f = "analysis" -> <<"str", "">>
      [] f = "disclaimer" ->
            <<"str", "This is not a medical diagnosis. Consult a healthcare professional.">>
      [] OTHER -> <<"list">>

\* the defaulting map of a JSON object
DefaultingMap(ms) == [f \in Fields |-> IF HasKey(ms, f) THEN ValueOf(ms, f) ELSE FieldDefault(f)]

\* C1: analyze_symptoms on a symptom input that is not a text, or is empty,
\* blank or shorter than 5 characters once trimmed, raises the invalid-input
\* error (ValueError) and has issued no completion request.
C1_InvalidInputRejected ==
    (op = "analyze_symptoms" /\ ShortOrNonText(args.symptoms))
        => (IsValueError(exc) /\ requests = <<>> /\ result = None)

\* a text of 5 characters of which 4 remain once trimmed was rejected
C1_Witness ==
    /\ op = "analyze_symptoms"
    /\ args.symptoms.type = "str"
    /\ Len(args.symptoms.text) = 5
    /\ TrimmedLen(args.symptoms.text) = 4
    /\ IsValueError(exc)
    /\ requests = <<>>

\* C2: analyze_with_streaming on such an input raises the invalid-input error
\* before any completion request is issued and before any chunk is yielded.
C2_StreamingRejectsInvalidInput ==
    (op = "analyze_with_streaming" /\ ShortOrNonText(args.symptoms))
        => /\ requests = <<>>
           /\ yielded = <<>>
           /\ gen \in {"suspended", "finished"} => IsValueError(exc)

\* C3: for a JSON-object response analyze_symptoms returns the defaulting map
\* of the object: a field has the response's value when its key is present
\* and its default when absent, and the result has the eight fields only.
C3_DefaultingMap ==
    \A ms \in MemberLists :
        (op = "analyze_symptoms" /\ payload = Some(Obj(ms)))
            => (exc = None /\ result = Some(DefaultingMap(ms)))

\* a response without severity, confidence and disclaimer was mapped
C3_Witness ==
    /\ op = "analyze_symptoms"
    /\ payload = Some(Obj(PartialMembers))
    /\ result # None
    /\ result[1].confidence = <<"str", "medium">>
    /\ result[1].precautions = <<"list", "rest">>

Severities == {<<"str", v>> : v \in {"mild", "moderate", "severe", "emergency"}}
Confidences == {<<"str", v>> : v \in {"low", "medium", "high"}}

\* C4: every AnalysisResult returned by analyze_symptoms or
\* analyze_with_streaming has its severity in {mild, moderate, severe,
\* emergency} and its confidence in {low, medium, high}.
C4_VocabularyEnforced ==
    result # None
        => (result[1].severity \in Severities /\ result[1].confidence \in Confidences)

\* C5: when the request succeeded and the response text is no JSON object,
\* analyze_symptoms raises the malformed-response error and returns nothing;
\* a failed request raises an error that is not the malformed-response error.
C5_MalformedResponseError ==
    op = "analyze_symptoms"
        => /\ (payload # None /\ ~IsJsonObject(payload[1]))
                => (exc # None /\ exc[1].msg = MsgInvalidFormat /\ result = None)
           /\ (payload = None /\ requests # <<>>)
                => (exc # None /\ exc[1].msg # MsgInvalidFormat)

\* C6: ServviaAPI.analyze raises nothing and returns one tagged outcome:
\* success with the data when the engine returned a result, INVALID_INPUT
\* exactly when the engine raised the invalid-input error, ANALYSIS_FAILED
\* when the request failed or the response was malformed.
C6_FacadeTaggedOutcome ==
    op = "analyze"
        => /\ exc = None
           /\ log = <<"return">>
           /\ response # None
           /\ LET r == response[1]
                  invalid == ShortOrNonText(args.symptoms)
                  answered == payload # None /\ IsJsonObject(payload[1])
              IN /\ r.status \in {"success", "error"}
                 /\ (r.code = Some("INVALID_INPUT")) <=> invalid
                 /\ (r.status = "success") <=> (~invalid /\ answered)
                 /\ r.status = "success" => (r.data # None /\ r.code = None /\ r.error = None)
                 /\ (~invalid /\ ~answered)
                        => (r.status = "error" /\ r.code = Some("ANALYSIS_FAILED") /\ r.data = None)
                 /\ invalid => (r.status = "error" /\ r.data = None)

\* the facade turned a malformed response into ANALYSIS_FAILED
C6_Witness ==
    /\ op = "analyze"
    /\ payload = Some(<<Prose>>)
    /\ response # None
    /\ response[1].code = Some("ANALYSIS_FAILED")

\* C7: when analyze_with_streaming has failed, the chunks the consumer
\* received are the text fragments read from the provider, in arrival order;
\* the consumer observed those yields and then one raise; and no
\* AnalysisResult is available.
C7_ChunksBeforeFailure ==
    (op = "analyze_with_streaming" /\ exc # None)
        => /\ yielded = [i \in 1..Len(received) |-> received[i][1]]
           /\ payload # None
                => Flatten(yielded) = SubSeq(payload[1], 1, Len(payload[1]) - Len(remaining))
           /\ log = [i \in 1..(Len(yielded) + 1) |-> IF i <= Len(yielded) THEN "yield" ELSE "raise"]
           /\ result = None

\* a stream of two chunks ended in text that is no JSON
C7_Witness ==
    /\ op = "analyze_with_streaming"
    /\ exc # None
    /\ exc[1].cause = "JSONDecodeError"
    /\ Len(yielded) = 2
    /\ yielded[1] # yielded[2]

\* C8: when the stream has ended, the chunks yielded concatenate to the
\* provider's response text, and the AnalysisResult of the streaming call is
\* the one analyze_symptoms' parsing returns for that text (none when its
\* parsing fails).
C8_ModesConsistent ==
    (op = "analyze_with_streaming" /\ gen = "finished" /\ payload # None /\ remaining = <<>>)
        => /\ Flatten(yielded) = payload[1]
           /\ exc = None => result = ParseResponse(payload[1]).result
           /\ (exc # None /\ exc[1].cause # "APIError")
                => ParseResponse(payload[1]).result = None

\* a streamed response in two chunks, missing three keys, gave a result
C8_Witness ==
    /\ op = "analyze_with_streaming"
    /\ gen = "finished"
    /\ Len(yielded) = 2
    /\ payload = Some(Obj(PartialMembers))
    /\ result # None

\* C9: an invocation issues at most one completion request; a failure is
\* observed by the caller once, as the last thing it observes, and the
\* facade's caller observes one return.
C9_NoRetries ==
    /\ Len(requests) <= 1
    /\ Count(log, "raise") <= 1
    /\ exc # None => (Last(log) = "raise" /\ Count(log, "raise") = 1 /\ result = None)
    /\ (response # None /\ response[1].status = "error") => log = <<"return">>
    /\ gen = "finished" => Count(log, "raise") + Count(log, "return") = 1

\* a streaming call whose request was issued failed
C9_Witness ==
    /\ op = "analyze_with_streaming"
    /\ exc # None
    /\ Len(requests) = 1
    /\ yielded # <<>>

\* C10: once a streaming call is cancelled after the consumer received 1 of
\* N chunks, the provider connection is released, no further chunk and no
\* AnalysisResult is produced, and the call that follows starts from nothing.
C10_CancelReleases ==
    /\ (gen = "closed" /\ Len(yielded) = 1 /\ remaining # <<>>)
            => (connection = "released" /\ result = None /\ log = <<"yield">>)
    /\ gen = "created" => (requests = <<>> /\ yielded = <<>> /\ collected = <<>> /\ result = None)

\* the text of a prompt: its parts one after the other
PromptText(prompt) == Flatten(prompt)

\* sub occurs in text
Contains(text, sub) ==
    \E i \in 0..(Len(text) - Len(sub)) : SubSeq(text, i + 1, i + Len(sub)) = sub

\* the line a metadata entry is rendered as: "\n- ", the key in Title Case
\* with blanks for underscores, ": ", and the value as it was given
ExpectedLine(item) ==
    CASE item.key = <<"a", "g", "e">> /\ item.value = IntInput(30) ->
            <<"\n", "-", " ", "A", "g", "e", ":", " ", "3", "0">>
      [] item.key = <<"g", "e", "n", "d", "e", "r">> /\ item.value = Female ->
            <<"\n", "-", " ", "G", "e", "n", "d", "e", "r", ":", " ",
              "f", "e", "m", "a", "l", "e">>
      [] item.key = <<"d", "u", "r", "a", "t", "i", "o", "n">> /\ item.value = TwoDays ->
            <<"\n", "-", " ", "D", "u", "r", "a", "t", "i", "o", "n", ":", " ",
              "2", " ", "d", "a", "y", "s">>
      [] item.key = Chars_severity_level ->
            <<"\n", "-", " ", "S", "e", "v", "e", "r", "i", "t", "y", " ",
              "L", "e", "v", "e", "l", ":", " ", "h", "i", "g", "h">>
      [] item.key = Chars_medical_history ->
            <<"\n", "-", " ", "M", "e", "d", "i", "c", "a", "l", " ",
              "H", "i", "s", "t", "o", "r", "y", ":", " ", "a", "s", "t", "h", "m", "a">>
      [] OTHER -> <<>>

\* C11 (as amended): the user prompt of every request is the header, the
\* symptom text, then, when there is metadata, the "Additional Information:"
\* heading and one line per entry in the entries' order, "<Key>: <value>"
\* with the key in Title Case (underscores replaced by blanks) and the value
\* as it was given, then the JSON-format instruction; so the prompt is a
\* function of the text and the metadata, and for {age: 30, gender: "female",
\* duration: "2 days"} it contains "Age: 30", "Gender: female" and
\* "Duration: 2 days".
C11_PromptRendering ==
    requests # <<>>
        => LET prompt == requests[1].user
               info == args.additional_info
           IN /\ \A i \in 1..Len(requests) : requests[i].user = prompt
              /\ prompt[1] = <<"Please analyze these symptoms:\n\n">>
              /\ prompt[2] = (IF args.symptoms.type = "str" THEN args.symptoms.text
                              ELSE IF args.symptoms = IntInput(0) THEN <<"0">>
                              ELSE IF args.symptoms = IntInput(7) THEN <<"7">>
                              ELSE <<"N", "o", "n", "e">>)
              /\ Last(prompt) = <<"\n\nProvide your analysis in the specified JSON format.">>
              /\ info = <<>> => Len(prompt) = 3
              /\ info # <<>>
                    => /\ Len(prompt) = Len(info) + 4
                       /\ prompt[3] = <<"\n\nAdditional Information:">>
                       /\ \A i \in 1..Len(info) :
                            ExpectedLine(info[i]) # <<>> /\ prompt[3 + i] = ExpectedLine(info[i])
              /\ info = ExampleInfo
                    => /\ Contains(PromptText(prompt), <<"A", "g", "e", ":", " ", "3", "0">>)
                       /\ Contains(PromptText(prompt),
                                   <<"G", "e", "n", "d", "e", "r", ":", " ",
                                     "f", "e", "m", "a", "l", "e">>)
                       /\ Contains(PromptText(prompt),
                                   <<"D", "u", "r", "a", "t", "i", "o", "n", ":", " ",
                                     "2", " ", "d", "a", "y", "s">>)

\* a request was issued for a call with a two-word metadata key
C11_Witness ==
    /\ requests # <<>>
    /\ Len(args.additional_info) = 2
    /\ args.additional_info[1].key = Chars_severity_level
    /\ Contains(PromptText(requests[1].user),
                <<"S", "e", "v", "e", "r", "i", "t", "y", " ", "L", "e", "v", "e", "l", ":", " ",
                  "h", "i", "g", "h">>)

\* C11: for metadata {age: 30, gender: "female", duration: "2 days"} the user
\* prompt contains the substrings "Age: 30", "Gender: Female" and
\* "Duration: 2 Days".
C11_ExampleSubstrings ==
    (requests # <<>> /\ args.additional_info = ExampleInfo)
        => /\ Contains(PromptText(requests[1].user), <<"A", "g", "e", ":", " ", "3", "0">>)
           /\ Contains(PromptText(requests[1].user),
                       <<"G", "e", "n", "d", "e", "r", ":", " ", "F", "e", "m", "a", "l", "e">>)
           /\ Contains(PromptText(requests[1].user),
                       <<"D", "u", "r", "a", "t", "i", "o", "n", ":", " ",
                         "2", " ", "D", "a", "y", "s">>)

====
